---- MODULE Spec2Model ----
(***************************************************************************)
(* Model of src/src/api/v1/user.py: the REST resources SignUp, Login,      *)
(* RefreshTokens, Logout, ChangeCreds and ChangeUserRoles, together with   *)
(* the stores they use (user table, login history, redis blocklist) and    *)
(* the token validator that guards the protected resources.                *)
(*                                                                         *)
(* Time is counted in minutes.  A token is the record of its claims; the   *)
(* field "signed" says whether its signature verifies under the server's   *)
(* secret.                                                                 *)
(***************************************************************************)
EXTENDS Integers, Sequences, FiniteSets, TLC

\* ------------------------------------------------------------------ bounds
MaxUsers == 2
MaxJti == 4
MaxLogins == 2
MaxLogouts == 2
MaxTime == 90
TickStep == 30

Logins == {"alice", "bob"}
Emails == {"a@x.com", "b@x.com"}
Passwords == {"pw1", "pw2"}
UserAgents == {"ua1"}

\* --------------------------------------------------------------- constants
\* ACCESS_EXPIRES = timedelta(hours=1), in minutes
ACCESS_EXPIRES == 60
\* lifetime of a refresh token: "longer, configurable"
REFRESH_EXPIRES == 90

\* The program's state: the user table (a user's id is its index), the login
\* history, the redis blocklist, the tokens handed out to clients, the clock,
\* the requests in flight inside Login.post and Logout.delete, and the last
\* response sent.
VARIABLES users, auth_history, blocklist, tokens, nextJti, now,
          logins, logouts, resp
\* What an observer has seen so far: the (login, email) pairs of the signups
\* that succeeded, the access tokens returned by Login and by RefreshTokens,
\* the logout requests that were admitted and have ended (each with its token
\* and whether another logout of the same token was in flight when it ended),
\* and the kinds of role mutation that were carried out (the operation,
\* whether the user held the role before it, whether the user's roles changed,
\* and the status of the response).
VARIABLES signedUp, byLogin, byRefresh, logged_out, role_calls

seen == <<signedUp, byLogin, byRefresh, logged_out, role_calls>>

vars == <<users, auth_history, blocklist, tokens, nextJti, now,
          logins, logouts, resp, seen>>

\* ----------------------------------------------------------------- helpers
\* get_hash: a one-way image of the password, never the password itself
get_hash(pw) == <<"hash", pw>>

\* check_password(password, stored hash)
check_password(pw, h) == h = get_hash(pw)

\* is_uuid: identifiers are integers here, the well-formed ones positive
is_uuid(x) == x > 0

\* the rows of the role table; this module never adds or deletes one
RoleTable == {1, 2}

\* identifiers a request can carry: malformed, known, and well-formed unknown
UserIdInputs == {-1} \cup (1..MaxUsers)
RoleIdInputs == {-1, 3} \cup RoleTable

NoToken == [jti |-> 0, sub |-> 0, type |-> "none", iat |-> 0, exp |-> 0,
            fresh |-> FALSE, signed |-> FALSE]

\* the default of the parameter fresh of create_access_token
DefaultFresh == FALSE

\* create_access_token(identity, fresh): an access token with a new jti that
\* expires after the access lifetime
create_access_token(identity, fresh, jti) ==
    [jti |-> jti, sub |-> identity, type |-> "access", iat |-> now,
     exp |-> now + ACCESS_EXPIRES, fresh |-> fresh, signed |-> TRUE]

\* create_refresh_token(identity)
create_refresh_token(identity, jti) ==
    [jti |-> jti, sub |-> identity, type |-> "refresh", iat |-> now,
     exp |-> now + REFRESH_EXPIRES, fresh |-> FALSE, signed |-> TRUE]

\* redis: a key is present until its expiry time
is_revoked(jti) == \E e \in blocklist : e.jti = jti /\ now < e.expire_at

\* a validator that consults the blocklist before the expiry and the scope
validate_BlocklistFirst(t, required_type) ==
    IF ~t.signed THEN "Malformed"
    ELSE IF is_revoked(t.jti) THEN "Revoked"
    ELSE IF now >= t.exp THEN "Expired"
    ELSE IF t.type # required_type THEN "WrongScope"
    ELSE "Ok"

\* Token validator, the gate of @jwt_required: signature/structure, expiry,
\* scope, blocklist, in this order
validate(t, required_type) ==
    IF ~t.signed THEN "Malformed"
    ELSE IF now >= t.exp THEN "Expired"
    ELSE IF t.type # required_type THEN "WrongScope"
    ELSE IF is_revoked(t.jti) THEN "Revoked"
    ELSE "Ok"

\* tokens a client can present: those handed out, and copies of them signed
\* with another secret
Forge(t) == [t EXCEPT !.signed = FALSE]
Presentable == tokens \cup {Forge(t) : t \in tokens}

\* user_datastore.find_user(login=...): index of the user, 0 for None
find_user(login) ==
    IF \E i \in 1..Len(users) : users[i].login = login
    THEN CHOOSE i \in 1..Len(users) : users[i].login = login
    ELSE 0

\* User.get_by_id: index of the user, 0 for None
get_by_id(user_id) == IF user_id \in 1..Len(users) THEN user_id ELSE 0

\* Role.find_by_id: the role, 0 for None
find_by_id(role_id) == IF role_id \in RoleTable THEN role_id ELSE 0

\* the unique constraints of the user table on login and email
Unique(us) ==
    \A i, j \in 1..Len(us) :
        i # j => us[i].login # us[j].login /\ us[i].email # us[j].email

Contains(s, x) == \E i \in 1..Len(s) : s[i] = x

RECURSIVE Remove(_, _)
Remove(s, x) ==
    IF s = <<>> THEN <<>>
    ELSE IF Head(s) = x THEN Tail(s)
    ELSE <<Head(s)>> \o Remove(Tail(s), x)

\* user_datastore.add_role_to_user: appended unless already held
add_role_to_user(roles, role) ==
    IF Contains(roles, role) THEN roles ELSE Append(roles, role)

\* user_datastore.remove_role_from_user: removed if held
remove_role_from_user(roles, role) ==
    IF Contains(roles, role) THEN Remove(roles, role) ELSE roles

\* a response without tokens
Response(op, status, body) ==
    [op |-> op, status |-> status, body |-> body,
     access_token |-> NoToken, refresh_token |-> NoToken, result |-> <<>>]

\* the response that carries a token pair
TokenResponse(op, access, refresh) ==
    [op |-> op, status |-> 200, body |-> "tokens",
     access_token |-> access, refresh_token |-> refresh, result |-> <<>>]

\* the response that carries a list: {'result': [...]}, 200
ResultResponse(op, result) ==
    [op |-> op, status |-> 200, body |-> "result",
     access_token |-> NoToken, refresh_token |-> NoToken, result |-> result]

\* the response of @jwt_required to a token it rejects
Rejected(op, kind) ==
    Response(op, IF kind \in {"Expired", "Revoked"} THEN 401 ELSE 422, kind)

\* -------------------------------------------------------------------- Init
Init ==
    /\ users = <<>>
    /\ auth_history = <<>>
    /\ blocklist = {}
    /\ tokens = {}
    /\ nextJti = 1
    /\ now = 0
    /\ logins = <<>>
    /\ logouts = <<>>
    /\ resp = Response("none", 0, "")
    /\ signedUp = {}
    /\ byLogin = {}
    /\ byRefresh = {}
    /\ logged_out = <<>>
    /\ role_calls = {}

\* ------------------------------------------------------------------ SignUp
SignUpPayloads ==
    {[empty |-> TRUE, login |-> "", password |-> "", email |-> ""]} \cup
    {[empty |-> FALSE, login |-> l, password |-> p, email |-> e] :
        l \in Logins, p \in Passwords, e \in Emails}

\* SignUp.post that takes a colliding signup for a new user
SignUp_IgnoresIntegrityError(data) ==
    /\ IF data.empty
       THEN /\ resp' = Response("signup", 400, "Credentials required")
            /\ UNCHANGED <<users, signedUp>>
       ELSE /\ Len(users) < MaxUsers
            /\ users' = Append(users,
                   [login |-> data.login, email |-> data.email,
                    password |-> get_hash(data.password), roles |-> <<>>])
            /\ signedUp' = signedUp \cup
                   {[login |-> data.login, email |-> data.email]}
            /\ resp' = Response("signup", 201, data.login)
    /\ UNCHANGED <<auth_history, blocklist, tokens, nextJti, now, logins,
                   logouts, byLogin, byRefresh, logged_out, role_calls>>

\* SignUp.post
SignUp(data) ==
    /\ IF data.empty
       THEN /\ resp' = Response("signup", 400, "Credentials required")
            /\ UNCHANGED <<users, signedUp>>
       ELSE LET user == [login |-> data.login, email |-> data.email,
                         password |-> get_hash(data.password), roles |-> <<>>]
            IN IF Unique(Append(users, user))
               THEN /\ Len(users) < MaxUsers
                    /\ users' = Append(users, user)
                    /\ signedUp' = signedUp \cup
                           {[login |-> data.login, email |-> data.email]}
                    /\ resp' = Response("signup", 201, data.login)
               ELSE /\ resp' = Response("signup", 400,
                                        "Login or email already exist")
                    /\ UNCHANGED <<users, signedUp>>
    /\ UNCHANGED <<auth_history, blocklist, tokens, nextJti, now, logins,
                   logouts, byLogin, byRefresh, logged_out, role_calls>>

\* ------------------------------------------------------------------- Login
LoginPayloads ==
    {[empty |-> TRUE, login |-> "", password |-> ""]} \cup
    {[empty |-> FALSE, login |-> l, password |-> p] :
        l \in Logins, p \in Passwords}

\* position i of a sequence taken out
Drop(s, i) == SubSeq(s, 1, i - 1) \o SubSeq(s, i + 1, Len(s))

\* Login.post that answers an unknown login with a message of its own
LoginBegin_TellsUnknownLogin(data, ua) ==
    /\ IF data.empty
       THEN /\ resp' = Response("login", 400, "Credentials required")
            /\ UNCHANGED <<logins, nextJti>>
       ELSE LET user == find_user(data.login)
            IN IF user = 0
               THEN /\ resp' = Response("login", 401, "No such user")
                    /\ UNCHANGED <<logins, nextJti>>
               ELSE IF check_password(data.password, users[user].password)
               THEN /\ Len(logins) < MaxLogins
                    /\ nextJti + 1 <= MaxJti
                    /\ logins' = Append(logins,
                           [user_agent |-> ua, user |-> user,
                            access_token |->
                                create_access_token(user, DefaultFresh, nextJti),
                            refresh_token |->
                                create_refresh_token(user, nextJti + 1)])
                    /\ nextJti' = nextJti + 2
                    /\ UNCHANGED resp
               ELSE /\ resp' = Response("login", 401, "Invalid credentials")
                    /\ UNCHANGED <<logins, nextJti>>
    /\ UNCHANGED <<users, auth_history, blocklist, tokens, now, logouts, seen>>

\* Login.post, lines 128-136 and 142: read the request, look the user up,
\* check the password and create the two tokens
LoginBegin(data, ua) ==
    /\ IF data.empty
       THEN /\ resp' = Response("login", 400, "Credentials required")
            /\ UNCHANGED <<logins, nextJti>>
       ELSE LET user == find_user(data.login)
            IN IF user # 0 /\ check_password(data.password, users[user].password)
               THEN /\ Len(logins) < MaxLogins
                    /\ nextJti + 1 <= MaxJti
                    /\ logins' = Append(logins,
                           [user_agent |-> ua, user |-> user,
                            access_token |->
                                create_access_token(user, DefaultFresh, nextJti),
                            refresh_token |->
                                create_refresh_token(user, nextJti + 1)])
                    /\ nextJti' = nextJti + 2
                    /\ UNCHANGED resp
               ELSE /\ resp' = Response("login", 401, "Invalid credentials")
                    /\ UNCHANGED <<logins, nextJti>>
    /\ UNCHANGED <<users, auth_history, blocklist, tokens, now, logouts, seen>>

\* Login.post that returns the token pair without recording the login
LoginCommit_NoRecord(i) ==
    /\ tokens' = tokens \cup {logins[i].access_token, logins[i].refresh_token}
    /\ byLogin' = byLogin \cup {logins[i].access_token}
    /\ resp' = TokenResponse("login", logins[i].access_token,
                             logins[i].refresh_token)
    /\ logins' = Drop(logins, i)
    /\ UNCHANGED <<users, auth_history, blocklist, nextJti, now, logouts,
                   signedUp, byRefresh, logged_out, role_calls>>

\* Login.post, lines 137-141: the login is recorded, committed, and the
\* token pair is returned
LoginCommit(i) ==
    /\ auth_history' = Append(auth_history,
           [user_id |-> logins[i].user, user_agent |-> logins[i].user_agent,
            ts |-> now])
    /\ tokens' = tokens \cup {logins[i].access_token, logins[i].refresh_token}
    /\ byLogin' = byLogin \cup {logins[i].access_token}
    /\ resp' = TokenResponse("login", logins[i].access_token,
                             logins[i].refresh_token)
    /\ logins' = Drop(logins, i)
    /\ UNCHANGED <<users, blocklist, nextJti, now, logouts, signedUp,
                   byRefresh, logged_out, role_calls>>

\* Login.post, line 139 when the store is unavailable: commit raises, the
\* request ends with an internal error and the created tokens are dropped
LoginCommitFail(i) ==
    /\ resp' = Response("login", 500, "Internal Server Error")
    /\ logins' = Drop(logins, i)
    /\ UNCHANGED <<users, auth_history, blocklist, tokens, nextJti, now,
                   logouts, seen>>

\* ----------------------------------------------------------- RefreshTokens
\* RefreshTokens.post that creates both tokens with create_refresh_token
RefreshTokens_TwoRefreshTokens(t) ==
    /\ IF validate(t, "refresh") # "Ok"
       THEN /\ resp' = Rejected("refresh", validate(t, "refresh"))
            /\ UNCHANGED <<tokens, nextJti, byRefresh>>
       ELSE LET identity == t.sub
                access_token == create_refresh_token(identity, nextJti)
                refresh_token == create_refresh_token(identity, nextJti + 1)
            IN /\ nextJti + 1 <= MaxJti
               /\ tokens' = tokens \cup {access_token, refresh_token}
               /\ nextJti' = nextJti + 2
               /\ byRefresh' = byRefresh \cup {access_token}
               /\ resp' = TokenResponse("refresh", access_token, refresh_token)
    /\ UNCHANGED <<users, auth_history, blocklist, now, logins, logouts,
                   signedUp, byLogin, logged_out, role_calls>>

\* RefreshTokens.post that records the refresh in the login history, as
\* Login.post records a login
RefreshTokens_RecordsLogin(t) ==
    /\ IF validate(t, "refresh") # "Ok"
       THEN /\ resp' = Rejected("refresh", validate(t, "refresh"))
            /\ UNCHANGED <<tokens, nextJti, byRefresh, auth_history>>
       ELSE LET identity == t.sub
                access_token == create_access_token(identity, FALSE, nextJti)
                refresh_token == create_refresh_token(identity, nextJti + 1)
            IN /\ nextJti + 1 <= MaxJti
               /\ tokens' = tokens \cup {access_token, refresh_token}
               /\ nextJti' = nextJti + 2
               /\ byRefresh' = byRefresh \cup {access_token}
               /\ auth_history' = Append(auth_history,
                      [user_id |-> identity, user_agent |-> "ua1", ts |-> now])
               /\ resp' = TokenResponse("refresh", access_token, refresh_token)
    /\ UNCHANGED <<users, blocklist, now, logins, logouts,
                   signedUp, byLogin, logged_out, role_calls>>

\* RefreshTokens.post behind @jwt_required() without refresh=True
RefreshTokens_AccessScope(t) ==
    /\ IF validate(t, "access") # "Ok"
       THEN /\ resp' = Rejected("refresh", validate(t, "access"))
            /\ UNCHANGED <<tokens, nextJti, byRefresh>>
       ELSE LET identity == t.sub
                access_token == create_access_token(identity, FALSE, nextJti)
                refresh_token == create_refresh_token(identity, nextJti + 1)
            IN /\ nextJti + 1 <= MaxJti
               /\ tokens' = tokens \cup {access_token, refresh_token}
               /\ nextJti' = nextJti + 2
               /\ byRefresh' = byRefresh \cup {access_token}
               /\ resp' = TokenResponse("refresh", access_token, refresh_token)
    /\ UNCHANGED <<users, auth_history, blocklist, now, logins, logouts,
                   signedUp, byLogin, logged_out, role_calls>>

\* RefreshTokens.post
RefreshTokens(t) ==
    /\ IF validate(t, "refresh") # "Ok"
       THEN /\ resp' = Rejected("refresh", validate(t, "refresh"))
            /\ UNCHANGED <<tokens, nextJti, byRefresh>>
       ELSE LET identity == t.sub
                access_token == create_access_token(identity, FALSE, nextJti)
                refresh_token == create_refresh_token(identity, nextJti + 1)
            IN /\ nextJti + 1 <= MaxJti
               /\ tokens' = tokens \cup {access_token, refresh_token}
               /\ nextJti' = nextJti + 2
               /\ byRefresh' = byRefresh \cup {access_token}
               /\ resp' = TokenResponse("refresh", access_token, refresh_token)
    /\ UNCHANGED <<users, auth_history, blocklist, now, logins, logouts,
                   signedUp, byLogin, logged_out, role_calls>>

\* ------------------------------------------------------------------ Logout
\* Logout.delete, line 198: @jwt_required() admits the request or rejects it
LogoutBegin(t) ==
    /\ IF validate(t, "access") # "Ok"
       THEN /\ resp' = Rejected("logout", validate(t, "access"))
            /\ UNCHANGED logouts
       ELSE /\ Len(logouts) + Len(logged_out) < MaxLogouts
            /\ logouts' = Append(logouts, t)
            /\ UNCHANGED resp
    /\ UNCHANGED <<users, auth_history, blocklist, tokens, nextJti, now,
                   logins, seen>>

\* Logout.delete that carries out the comment of line 203 and puts the
\* refresh token of the pair in the blocklist
LogoutBody_RevokesRefreshToken(i) ==
    /\ resp' = Response("logout", 200, "User's token revoked")
    /\ blocklist' = blocklist \cup
           {[jti |-> logouts[i].jti + 1, expire_at |-> now + REFRESH_EXPIRES]}
    /\ logged_out' = Append(logged_out,
           [token |-> logouts[i],
            raced |-> \E j \in 1..Len(logouts) : j # i /\ logouts[j] = logouts[i]])
    /\ logouts' = Drop(logouts, i)
    /\ UNCHANGED <<users, auth_history, tokens, nextJti, now,
                   logins, signedUp, byLogin, byRefresh, role_calls>>

\* Logout.delete, line 200: get_jwt is not among the names the module
\* imports (lines 5-6), so the call raises NameError before line 201 writes
\* the blocklist; the request ends with an internal error
LogoutBody(i) ==
    /\ resp' = Response("logout", 500, "Internal Server Error")
    /\ logged_out' = Append(logged_out,
           [token |-> logouts[i],
            raced |-> \E j \in 1..Len(logouts) : j # i /\ logouts[j] = logouts[i]])
    /\ logouts' = Drop(logouts, i)
    /\ UNCHANGED <<users, auth_history, blocklist, tokens, nextJti, now,
                   logins, signedUp, byLogin, byRefresh, role_calls>>

\* ------------------------------------------------------------- ChangeCreds
ChangeCredsPayloads ==
    {[key |-> "none", value |-> ""]} \cup
    {[key |-> "login", value |-> l] : l \in Logins} \cup
    {[key |-> "email", value |-> e] : e \in Emails} \cup
    {[key |-> "password", value |-> p] : p \in Passwords}

\* the loop of lines 272-276 for a body of one key
SetAttr(user, data) ==
    IF data.key = "login" THEN [user EXCEPT !.login = data.value]
    ELSE IF data.key = "email" THEN [user EXCEPT !.email = data.value]
    ELSE [user EXCEPT !.password = get_hash(data.value)]

\* ChangeCreds.put over a table without unique constraints
ChangeCreds_IgnoresIntegrityError(t, user_id, data) ==
    /\ IF validate(t, "access") # "Ok"
       THEN /\ resp' = Rejected("change_creds", validate(t, "access"))
            /\ UNCHANGED users
       ELSE IF ~is_uuid(user_id)
       THEN /\ resp' = Response("change_creds", 400, "Invalid UUID format")
            /\ UNCHANGED users
       ELSE IF data.key = "none"
       THEN /\ resp' = Response("change_creds", 400, "Empty data")
            /\ UNCHANGED users
       ELSE IF get_by_id(user_id) = 0
       THEN /\ resp' = Response("change_creds", 400, "No user with specified id")
            /\ UNCHANGED users
       ELSE LET user == get_by_id(user_id)
                updated == [users EXCEPT ![user] = SetAttr(users[user], data)]
            IN IF TRUE
               THEN /\ users' = updated
                    /\ resp' = Response("change_creds", 200, "User updated")
               ELSE /\ resp' = Response("change_creds", 400,
                                        "Login or email already exist")
                    /\ UNCHANGED users
    /\ UNCHANGED <<auth_history, blocklist, tokens, nextJti, now, logins,
                   logouts, seen>>

\* ChangeCreds.put
ChangeCreds(t, user_id, data) ==
    /\ IF validate(t, "access") # "Ok"
       THEN /\ resp' = Rejected("change_creds", validate(t, "access"))
            /\ UNCHANGED users
       ELSE IF ~is_uuid(user_id)
       THEN /\ resp' = Response("change_creds", 400, "Invalid UUID format")
            /\ UNCHANGED users
       ELSE IF data.key = "none"
       THEN /\ resp' = Response("change_creds", 400, "Empty data")
            /\ UNCHANGED users
       ELSE IF get_by_id(user_id) = 0
       THEN /\ resp' = Response("change_creds", 400, "No user with specified id")
            /\ UNCHANGED users
       ELSE LET user == get_by_id(user_id)
                updated == [users EXCEPT ![user] = SetAttr(users[user], data)]
            IN IF Unique(updated)
               THEN /\ users' = updated
                    /\ resp' = Response("change_creds", 200, "User updated")
               ELSE /\ resp' = Response("change_creds", 400,
                                        "Login or email already exist")
                    /\ UNCHANGED users
    /\ UNCHANGED <<auth_history, blocklist, tokens, nextJti, now, logins,
                   logouts, seen>>

\* ------------------------------------------------------------ LoginHistory
\* Authentication.get_login_history: the records of the user, oldest first
RECURSIVE get_login_history(_, _)
get_login_history(history, user_id) ==
    IF history = <<>> THEN <<>>
    ELSE IF Head(history).user_id = user_id
    THEN <<Head(history)>> \o get_login_history(Tail(history), user_id)
    ELSE get_login_history(Tail(history), user_id)

\* LoginHistory.get that returns the records of every user
LoginHistory_EveryUser(t, user_id) ==
    /\ IF validate(t, "access") # "Ok"
       THEN resp' = Rejected("history", validate(t, "access"))
       ELSE IF ~is_uuid(user_id)
       THEN resp' = Response("history", 400, "Invalid UUID format")
       ELSE resp' = ResultResponse("history", auth_history)
    /\ UNCHANGED <<users, auth_history, blocklist, tokens, nextJti, now,
                   logins, logouts, seen>>

\* LoginHistory.get
LoginHistory(t, user_id) ==
    /\ IF validate(t, "access") # "Ok"
       THEN resp' = Rejected("history", validate(t, "access"))
       ELSE IF ~is_uuid(user_id)
       THEN resp' = Response("history", 400, "Invalid UUID format")
       ELSE resp' = ResultResponse("history",
                                   get_login_history(auth_history, user_id))
    /\ UNCHANGED <<users, auth_history, blocklist, tokens, nextJti, now,
                   logins, logouts, seen>>

\* --------------------------------------------------------------- UserRoles
\* UserRoles.get
UserRoles(t, user_id) ==
    /\ IF validate(t, "access") # "Ok"
       THEN resp' = Rejected("roles", validate(t, "access"))
       ELSE IF ~is_uuid(user_id)
       THEN resp' = Response("roles", 400, "Invalid UUID format")
       ELSE IF get_by_id(user_id) = 0
       THEN resp' = Response("roles", 400, "No user with specified id")
       ELSE resp' = ResultResponse("roles", users[get_by_id(user_id)].roles)
    /\ UNCHANGED <<users, auth_history, blocklist, tokens, nextJti, now,
                   logins, logouts, seen>>

\* --------------------------------------------------------- ChangeUserRoles
\* ChangeUserRoles.post that appends the role whether or not it is held
ChangeUserRolesPost_AlwaysAppends(t, user_id, role_id) ==
    /\ IF validate(t, "access") # "Ok"
       THEN /\ resp' = Rejected("add_role", validate(t, "access"))
            /\ UNCHANGED <<users, role_calls>>
       ELSE IF ~(is_uuid(user_id) /\ is_uuid(role_id))
       THEN /\ resp' = Response("add_role", 400, "Invalid UUID format")
            /\ UNCHANGED <<users, role_calls>>
       ELSE IF get_by_id(user_id) = 0
       THEN /\ resp' = Response("add_role", 400, "No user with specified id")
            /\ UNCHANGED <<users, role_calls>>
       ELSE IF find_by_id(role_id) = 0
       THEN /\ resp' = Response("add_role", 400, "No role with specified id")
            /\ UNCHANGED <<users, role_calls>>
       ELSE /\ Len(users[get_by_id(user_id)].roles) < 3
            /\ users' = [users EXCEPT ![get_by_id(user_id)].roles =
                             Append(@, find_by_id(role_id))]
            /\ resp' = Response("add_role", 200, "Success")
            /\ role_calls' = role_calls \cup
                   {[op |-> "add_role",
                     held |-> Contains(users[get_by_id(user_id)].roles,
                                       find_by_id(role_id)),
                     changed |-> users' # users,
                     status |-> resp'.status]}
    /\ UNCHANGED <<auth_history, blocklist, tokens, nextJti, now, logins,
                   logouts, signedUp, byLogin, byRefresh, logged_out>>

\* ChangeUserRoles.post without the is_uuid check of lines 404-405
ChangeUserRolesPost_NoUuidCheck(t, user_id, role_id) ==
    /\ IF validate(t, "access") # "Ok"
       THEN /\ resp' = Rejected("add_role", validate(t, "access"))
            /\ UNCHANGED <<users, role_calls>>
       ELSE IF get_by_id(user_id) = 0
       THEN /\ resp' = Response("add_role", 400, "No user with specified id")
            /\ UNCHANGED <<users, role_calls>>
       ELSE IF find_by_id(role_id) = 0
       THEN /\ resp' = Response("add_role", 400, "No role with specified id")
            /\ UNCHANGED <<users, role_calls>>
       ELSE /\ users' = [users EXCEPT ![get_by_id(user_id)].roles =
                             add_role_to_user(@, find_by_id(role_id))]
            /\ resp' = Response("add_role", 200, "Success")
            /\ role_calls' = role_calls \cup
                   {[op |-> "add_role",
                     held |-> Contains(users[get_by_id(user_id)].roles,
                                       find_by_id(role_id)),
                     changed |-> users' # users,
                     status |-> resp'.status]}
    /\ UNCHANGED <<auth_history, blocklist, tokens, nextJti, now, logins,
                   logouts, signedUp, byLogin, byRefresh, logged_out>>

\* ChangeUserRoles.post
ChangeUserRolesPost(t, user_id, role_id) ==
    /\ IF validate(t, "access") # "Ok"
       THEN /\ resp' = Rejected("add_role", validate(t, "access"))
            /\ UNCHANGED <<users, role_calls>>
       ELSE IF ~(is_uuid(user_id) /\ is_uuid(role_id))
       THEN /\ resp' = Response("add_role", 400, "Invalid UUID format")
            /\ UNCHANGED <<users, role_calls>>
       ELSE IF get_by_id(user_id) = 0
       THEN /\ resp' = Response("add_role", 400, "No user with specified id")
            /\ UNCHANGED <<users, role_calls>>
       ELSE IF find_by_id(role_id) = 0
       THEN /\ resp' = Response("add_role", 400, "No role with specified id")
            /\ UNCHANGED <<users, role_calls>>
       ELSE /\ users' = [users EXCEPT ![get_by_id(user_id)].roles =
                             add_role_to_user(@, find_by_id(role_id))]
            /\ resp' = Response("add_role", 200, "Success")
            /\ role_calls' = role_calls \cup
                   {[op |-> "add_role",
                     held |-> Contains(users[get_by_id(user_id)].roles,
                                       find_by_id(role_id)),
                     changed |-> users' # users,
                     status |-> resp'.status]}
    /\ UNCHANGED <<auth_history, blocklist, tokens, nextJti, now, logins,
                   logouts, signedUp, byLogin, byRefresh, logged_out>>

\* ChangeUserRoles.delete that asks the acting user to hold role 1
ChangeUserRolesDelete_RoleGuard(t, user_id, role_id) ==
    /\ IF validate(t, "access") # "Ok"
       THEN /\ resp' = Rejected("remove_role", validate(t, "access"))
            /\ UNCHANGED <<users, role_calls>>
       ELSE IF ~Contains(users[get_by_id(t.sub)].roles, 1)
       THEN /\ resp' = Response("remove_role", 403, "Forbidden")
            /\ UNCHANGED <<users, role_calls>>
       ELSE IF ~(is_uuid(user_id) /\ is_uuid(role_id))
       THEN /\ resp' = Response("remove_role", 400, "Invalid UUID format")
            /\ UNCHANGED <<users, role_calls>>
       ELSE IF get_by_id(user_id) = 0
       THEN /\ resp' = Response("remove_role", 400, "No user with specified id")
            /\ UNCHANGED <<users, role_calls>>
       ELSE IF find_by_id(role_id) = 0
       THEN /\ resp' = Response("remove_role", 400, "No role with specified id")
            /\ UNCHANGED <<users, role_calls>>
       ELSE /\ users' = [users EXCEPT ![get_by_id(user_id)].roles =
                             remove_role_from_user(@, find_by_id(role_id))]
            /\ resp' = Response("remove_role", 200, "Success")
            /\ role_calls' = role_calls \cup
                   {[op |-> "remove_role",
                     held |-> Contains(users[get_by_id(user_id)].roles,
                                       find_by_id(role_id)),
                     changed |-> users' # users,
                     status |-> resp'.status]}
    /\ UNCHANGED <<auth_history, blocklist, tokens, nextJti, now, logins,
                   logouts, signedUp, byLogin, byRefresh, logged_out>>

\* ChangeUserRoles.delete
ChangeUserRolesDelete(t, user_id, role_id) ==
    /\ IF validate(t, "access") # "Ok"
       THEN /\ resp' = Rejected("remove_role", validate(t, "access"))
            /\ UNCHANGED <<users, role_calls>>
       ELSE IF ~(is_uuid(user_id) /\ is_uuid(role_id))
       THEN /\ resp' = Response("remove_role", 400, "Invalid UUID format")
            /\ UNCHANGED <<users, role_calls>>
       ELSE IF get_by_id(user_id) = 0
       THEN /\ resp' = Response("remove_role", 400, "No user with specified id")
            /\ UNCHANGED <<users, role_calls>>
       ELSE IF find_by_id(role_id) = 0
       THEN /\ resp' = Response("remove_role", 400, "No role with specified id")
            /\ UNCHANGED <<users, role_calls>>
       ELSE /\ users' = [users EXCEPT ![get_by_id(user_id)].roles =
                             remove_role_from_user(@, find_by_id(role_id))]
            /\ resp' = Response("remove_role", 200, "Success")
            /\ role_calls' = role_calls \cup
                   {[op |-> "remove_role",
                     held |-> Contains(users[get_by_id(user_id)].roles,
                                       find_by_id(role_id)),
                     changed |-> users' # users,
                     status |-> resp'.status]}
    /\ UNCHANGED <<auth_history, blocklist, tokens, nextJti, now, logins,
                   logouts, signedUp, byLogin, byRefresh, logged_out>>

\* ------------------------------------------------------------------- clock
Tick ==
    /\ now + TickStep <= MaxTime
    /\ now' = now + TickStep
    /\ UNCHANGED <<users, auth_history, blocklist, tokens, nextJti, logins,
                   logouts, resp, seen>>

\* The whole service.
Next ==
    \/ \E data \in SignUpPayloads : SignUp(data)
    \/ \E data \in LoginPayloads, ua \in UserAgents : LoginBegin(data, ua)
    \/ \E i \in 1..Len(logins) : LoginCommit(i)
    \/ \E i \in 1..Len(logins) : LoginCommitFail(i)
    \/ \E t \in Presentable : RefreshTokens(t)
    \/ \E t \in Presentable : LogoutBegin(t)
    \/ \E i \in 1..Len(logouts) : LogoutBody(i)
    \/ \E t \in Presentable, user_id \in UserIdInputs,
          data \in ChangeCredsPayloads : ChangeCreds(t, user_id, data)
    \/ \E t \in Presentable, user_id \in UserIdInputs,
          role_id \in RoleIdInputs : ChangeUserRolesPost(t, user_id, role_id)
    \/ \E t \in Presentable, user_id \in UserIdInputs,
          role_id \in RoleIdInputs : ChangeUserRolesDelete(t, user_id, role_id)
    \/ \E t \in Presentable, user_id \in UserIdInputs : LoginHistory(t, user_id)
    \/ \E t \in Presentable, user_id \in UserIdInputs : UserRoles(t, user_id)
    \/ Tick

Spec == Init /\ [][Next]_vars

\* The service is checked in three parts, each the handlers that write the
\* part of the state it is about, with the signups and logins that lead there.

\* signups that give every login one email and one password
PlainSignUps ==
    {[empty |-> FALSE, login |-> "alice", password |-> "pw1", email |-> "a@x.com"],
     [empty |-> FALSE, login |-> "bob", password |-> "pw1", email |-> "b@x.com"]}

\* Token lifecycle: tokens, blocklist, login history and the clock are
\* written by Login, RefreshTokens, Logout and the clock only.
NextTokens ==
    \/ \E data \in PlainSignUps : SignUp(data)
    \/ \E data \in LoginPayloads, ua \in UserAgents : LoginBegin(data, ua)
    \/ \E i \in 1..Len(logins) : LoginCommit(i)
    \/ \E i \in 1..Len(logins) : LoginCommitFail(i)
    \/ \E t \in Presentable : RefreshTokens(t)
    \/ \E t \in Presentable : LogoutBegin(t)
    \/ \E i \in 1..Len(logouts) : LogoutBody(i)
    \/ Tick

SpecTokens == Init /\ [][NextTokens]_vars

\* Accounts: login, email and password of a user are written by SignUp and
\* ChangeCreds only.
NextAccounts ==
    \/ \E data \in SignUpPayloads : SignUp(data)
    \/ \E data \in LoginPayloads, ua \in UserAgents : LoginBegin(data, ua)
    \/ \E i \in 1..Len(logins) : LoginCommit(i)
    \/ \E t \in Presentable, user_id \in UserIdInputs,
          data \in ChangeCredsPayloads : ChangeCreds(t, user_id, data)

SpecAccounts == Init /\ [][NextAccounts]_vars

\* Roles: the roles of a user are written by ChangeUserRoles only.
NextRoles ==
    \/ \E data \in PlainSignUps : SignUp(data)
    \/ \E data \in LoginPayloads, ua \in UserAgents : LoginBegin(data, ua)
    \/ \E i \in 1..Len(logins) : LoginCommit(i)
    \/ \E t \in Presentable, user_id \in UserIdInputs,
          role_id \in RoleIdInputs : ChangeUserRolesPost(t, user_id, role_id)
    \/ \E t \in Presentable, user_id \in UserIdInputs,
          role_id \in RoleIdInputs : ChangeUserRolesDelete(t, user_id, role_id)

SpecRoles == Init /\ [][NextRoles]_vars

\* The gate: every endpoint behind @jwt_required, called by one user with one
\* user id and one role id per endpoint, while the clock runs past the expiry
\* of both tokens.
GateSignUps == {d \in PlainSignUps : d.login = "alice"}
GateLogins == {d \in LoginPayloads : ~d.empty /\ d.login = "alice" /\ d.password = "pw1"}
GateCreds == {d \in ChangeCredsPayloads : d.key = "none" \/ d.value = "pw1"}
GateUserIds == {1}
GateRoleIds == {3}

NextGate ==
    \/ \E data \in GateSignUps : SignUp(data)
    \/ \E data \in GateLogins, ua \in UserAgents : LoginBegin(data, ua)
    \/ \E i \in 1..Len(logins) : LoginCommit(i)
    \/ \E t \in Presentable : RefreshTokens(t)
    \/ \E t \in Presentable : LogoutBegin(t)
    \/ \E i \in 1..Len(logouts) : LogoutBody(i)
    \/ \E t \in Presentable, user_id \in GateUserIds,
          data \in GateCreds : ChangeCreds(t, user_id, data)
    \/ \E t \in Presentable, user_id \in GateUserIds : LoginHistory(t, user_id)
    \/ \E t \in Presentable, user_id \in GateUserIds : UserRoles(t, user_id)
    \/ \E t \in Presentable, user_id \in GateUserIds,
          role_id \in GateRoleIds : ChangeUserRolesPost(t, user_id, role_id)
    \/ \E t \in Presentable, user_id \in GateUserIds,
          role_id \in GateRoleIds : ChangeUserRolesDelete(t, user_id, role_id)
    \/ Tick

SpecGate == Init /\ [][NextGate]_vars

\* The validator alone, as a function of the token, the clock and the
\* blocklist: one token issued at time 0 and any content of the blocklist,
\* with entries that lapse with the access token or outlive both tokens.
TokenTypes == {"access", "refresh"}
BlocklistInputs ==
    {[jti |-> j, expire_at |-> e] :
        j \in 1..2, e \in {ACCESS_EXPIRES, ACCESS_EXPIRES + REFRESH_EXPIRES}}

InitValidate ==
    /\ users = <<>>
    /\ auth_history = <<>>
    /\ blocklist \in SUBSET BlocklistInputs
    /\ now = 0
    /\ tokens \in {{create_access_token(1, DefaultFresh, 1)},
                   {create_refresh_token(1, 2)}}
    /\ nextJti = 3
    /\ logins = <<>>
    /\ logouts = <<>>
    /\ resp = Response("none", 0, "")
    /\ signedUp = {}
    /\ byLogin = {}
    /\ byRefresh = {}
    /\ logged_out = <<>>
    /\ role_calls = {}

\* @jwt_required(refresh = (required_type = "refresh")) in front of a handler
\* that does nothing
JwtRequired(t, required_type) ==
    /\ IF validate(t, required_type) # "Ok"
       THEN resp' = Rejected("jwt_required", validate(t, required_type))
       ELSE resp' = Response("jwt_required", 200, "Ok")
    /\ UNCHANGED <<users, auth_history, blocklist, tokens, nextJti, now,
                   logins, logouts, seen>>

NextValidate ==
    \/ \E t \in Presentable, required_type \in TokenTypes :
          JwtRequired(t, required_type)
    \/ Tick

SpecValidate == InitValidate /\ [][NextValidate]_vars

\* Role mutation behind the gate: one user who is both the acting user and the
\* target, existing ids, while the clock runs past the expiry of the tokens.
NextRoleGate ==
    \/ \E data \in GateSignUps : SignUp(data)
    \/ \E data \in GateLogins, ua \in UserAgents : LoginBegin(data, ua)
    \/ \E i \in 1..Len(logins) : LoginCommit(i)
    \/ \E t \in Presentable, user_id \in GateUserIds,
          role_id \in RoleTable : ChangeUserRolesPost(t, user_id, role_id)
    \/ \E t \in Presentable, user_id \in GateUserIds,
          role_id \in RoleTable : ChangeUserRolesDelete(t, user_id, role_id)
    \/ Tick

SpecRoleGate == Init /\ [][NextRoleGate]_vars

\* Role mutation with every kind of user id and role id, by one user.
NextRoleIds ==
    \/ \E data \in GateSignUps : SignUp(data)
    \/ \E data \in GateLogins, ua \in UserAgents : LoginBegin(data, ua)
    \/ \E i \in 1..Len(logins) : LoginCommit(i)
    \/ \E t \in Presentable, user_id \in UserIdInputs,
          role_id \in RoleIdInputs : ChangeUserRolesPost(t, user_id, role_id)
    \/ \E t \in Presentable, user_id \in UserIdInputs,
          role_id \in RoleIdInputs : ChangeUserRolesDelete(t, user_id, role_id)

SpecRoleIds == Init /\ [][NextRoleIds]_vars

\* Login history: written by Login, read by LoginHistory, while the clock
\* runs.
NextHistory ==
    \/ \E data \in PlainSignUps : SignUp(data)
    \/ \E data \in LoginPayloads, ua \in UserAgents : LoginBegin(data, ua)
    \/ \E i \in 1..Len(logins) : LoginCommit(i)
    \/ \E i \in 1..Len(logins) : LoginCommitFail(i)
    \/ \E t \in Presentable, user_id \in UserIdInputs : LoginHistory(t, user_id)
    \/ Tick

SpecHistory == Init /\ [][NextHistory]_vars

\* ================================================================== claims

\* the access token handed out together with the refresh token t
PairedAccess(t) == {a \in tokens : a.type = "access" /\ a.jti = t.jti - 1}

\* C1: after a successful login, a logout request carrying the access token
\* revokes its jti: once the request has ended, validate(access, access) is
\* Revoked for as long as the token has not expired.
C1_LogoutRevokes ==
    \A i \in 1..Len(logged_out) :
        (logged_out[i].token \in byLogin /\ now < logged_out[i].token.exp)
            => validate(logged_out[i].token, "access") = "Revoked"

\* C2: the step of a refresh that issues a new pair leaves the refresh token
\* it was given, and the access token handed out with it, rejected by validate.
C2_RefreshRetiresOldPair ==
    [][\A t \in Presentable :
          (validate(t, "refresh") = "Ok" /\ RefreshTokens(t))
              => /\ validate(t, "refresh")' # "Ok"
                 /\ \A a \in PairedAccess(t) : validate(a, "access")' # "Ok"]_vars

DuplicateIdentity == Response("signup", 400, "Login or email already exist")

\* C3, as stated: once a signup with login L and email E has succeeded, every
\* later signup with login L or email E fails with DuplicateIdentity and
\* leaves the user records as they are.
C3_SignUpOnceTakenForever ==
    [][\A data \in SignUpPayloads :
          (/\ ~data.empty
           /\ \E s \in signedUp : s.login = data.login \/ s.email = data.email
           /\ SignUp(data))
              => (resp' = DuplicateIdentity /\ users' = users)]_vars

\* C3, amended: a signup with a login or an email that a stored user holds
\* fails with DuplicateIdentity and leaves the user records as they are.
C3_DuplicateSignUpFails ==
    [][\A data \in SignUpPayloads :
          (/\ ~data.empty
           /\ \E i \in 1..Len(users) :
                  users[i].login = data.login \/ users[i].email = data.email
           /\ SignUp(data))
              => (resp' = DuplicateIdentity /\ users' = users)]_vars

\* a signup was refused as a duplicate of a stored user
C3_Witness ==
    /\ resp = DuplicateIdentity
    /\ Len(users) >= 1

\* C4: an access token issued by login or refresh is accepted by
\* validate(token, access) at the time it is issued unless revoked, and is
\* rejected as Expired at every time from one hour (60 minutes) after that.
C4_AccessTokenLifetime ==
    \A t \in byLogin \cup byRefresh :
        /\ (now = t.iat /\ ~is_revoked(t.jti)) => validate(t, "access") = "Ok"
        /\ now >= t.iat + 60 => validate(t, "access") = "Expired"

\* a token of a login has expired while a token of a refresh is still new
C4_Witness ==
    /\ \E t \in byLogin : now >= t.iat + 60 /\ validate(t, "access") = "Expired"
    /\ \E t \in byRefresh : now = t.iat /\ validate(t, "access") = "Ok"

\* C5: for every user the logins recorded are exactly the logins that
\* returned a token pair; the tokens of a login still under way or failed are
\* in nobody's hands, a login response other than 200 carries no token, and
\* every access token in circulation was returned by a login or a refresh.
C5_NoPartialLogin ==
    /\ \A u \in 1..MaxUsers :
           Cardinality({t \in byLogin : t.sub = u}) =
           Cardinality({i \in 1..Len(auth_history) : auth_history[i].user_id = u})
    /\ \A i \in 1..Len(logins) :
           logins[i].access_token \notin tokens /\ logins[i].refresh_token \notin tokens
    /\ (resp.op = "login" /\ resp.status # 200)
           => (resp.access_token = NoToken /\ resp.refresh_token = NoToken)
    /\ \A t \in tokens : t.type = "access" => t \in byLogin \cup byRefresh

\* one login has failed at its commit after another login was recorded
C5_Witness ==
    /\ resp = Response("login", 500, "Internal Server Error")
    /\ Len(auth_history) = 1
    /\ Cardinality(byLogin) = 1

\* a login request for a login name no user holds
UnknownLogin(data) == ~data.empty /\ find_user(data.login) = 0

\* a login request with the login name of a user and another password
WrongPassword(data) ==
    /\ ~data.empty
    /\ find_user(data.login) # 0
    /\ ~check_password(data.password, users[find_user(data.login)].password)

\* C6: whatever step a login with an unknown login name takes, a login with
\* a known login name and a wrong password takes the same step from the same
\* state: the two have the same response and the same effect.
C6_NoUserEnumeration ==
    [][\A d1, d2 \in LoginPayloads : \A ua \in UserAgents :
          (UnknownLogin(d1) /\ WrongPassword(d2))
              => (LoginBegin(d1, ua) <=> LoginBegin(d2, ua))]_vars

\* a login was refused where both kinds of refusal are possible
C6_Witness ==
    /\ resp = Response("login", 401, "Invalid credentials")
    /\ \E d1, d2 \in LoginPayloads : UnknownLogin(d1) /\ WrongPassword(d2)

\* C7: after two logouts with the same access token have ended, the
\* blocklist holds one entry for its jti and validate finds it Revoked, as
\* after one.
C7_RevokeTwice ==
    \A i, j \in 1..Len(logged_out) :
        (i < j /\ logged_out[i].token = logged_out[j].token)
            => /\ Cardinality({e \in blocklist :
                                  e.jti = logged_out[i].token.jti}) = 1
               /\ now < logged_out[i].token.exp
                      => validate(logged_out[i].token, "access") = "Revoked"

\* C8: when a logout has ended while another logout with the same token was
\* in flight, then once none is in flight any more the jti is in the
\* blocklist.
C8_RacingLogoutsRevoke ==
    \A i \in 1..Len(logged_out) :
        (/\ logged_out[i].raced
         /\ \A j \in 1..Len(logouts) : logouts[j] # logged_out[i].token)
            => \E e \in blocklist : e.jti = logged_out[i].token.jti

NoDuplicateRole(us) ==
    \A u \in 1..Len(us) :
        \A i, j \in 1..Len(us[u].roles) :
            us[u].roles[i] = us[u].roles[j] => i = j

\* C9: a role mutation that adds a role the user holds, or removes a role
\* the user does not hold, succeeds and leaves the roles as they are; no user
\* ever holds a role twice.
C9_RoleMutationIdempotent ==
    /\ \A c \in role_calls :
           (c.op = "add_role" /\ c.held) => (~c.changed /\ c.status = 200)
    /\ \A c \in role_calls :
           (c.op = "remove_role" /\ ~c.held) => (~c.changed /\ c.status = 200)
    /\ NoDuplicateRole(users)

\* a role was added to a user who held it, and a role was removed from a
\* user who did not hold it
C9_Witness ==
    /\ \E c \in role_calls : c.op = "add_role" /\ c.held
    /\ \E c \in role_calls : c.op = "remove_role" /\ ~c.held
    /\ \E u \in 1..Len(users) : Len(users[u].roles) = 1

\* C10: every access token returned by login is fresh and every access
\* token returned by refresh is not.
C10_FreshMarksLogin ==
    /\ \A t \in byLogin : t.fresh
    /\ \A t \in byRefresh : ~t.fresh
\* C11: the blocklist entry a logout writes lives for the remaining validity
\* of the token (its expiry minus the time of the revocation): once a logout
\* has ended, the blocklist holds an entry for the jti of its token that
\* lapses exactly when the token expires, whenever in the token's lifetime
\* the logout came.
C11_TtlIsRemainingValidity ==
    \A i \in 1..Len(logged_out) :
        \E e \in blocklist :
            /\ e.jti = logged_out[i].token.jti
            /\ e.expire_at = logged_out[i].token.exp

RejectionKinds == {"Malformed", "Expired", "WrongScope", "Revoked"}

\* a token of the given type that is well-formed, unexpired and not revoked
ValidOfType(t, type) ==
    t.type = type /\ t.signed /\ now < t.exp /\ ~is_revoked(t.jti)

\* a step of an endpoint behind @jwt_required() that carries the token t
ProtectedCall(t) ==
    \/ LogoutBegin(t)
    \/ \E user_id \in GateUserIds, data \in GateCreds : ChangeCreds(t, user_id, data)
    \/ \E user_id \in GateUserIds : LoginHistory(t, user_id)
    \/ \E user_id \in GateUserIds : UserRoles(t, user_id)
    \/ \E user_id \in GateUserIds, role_id \in GateRoleIds :
          \/ ChangeUserRolesPost(t, user_id, role_id)
          \/ ChangeUserRolesDelete(t, user_id, role_id)

\* C12: a refresh that carries anything but a valid refresh token (an access
\* token, a malformed, expired or revoked token) is rejected and issues no
\* token, and logout, change credentials, history, roles and both role
\* mutations reject an otherwise valid refresh token as WrongScope and change
\* nothing.
C12_ScopeGate ==
    [][\A t \in Presentable :
          /\ (~ValidOfType(t, "refresh") /\ RefreshTokens(t))
                 => /\ resp'.body \in RejectionKinds
                    /\ resp'.access_token = NoToken
                    /\ resp'.refresh_token = NoToken
                    /\ tokens' = tokens
          /\ (ValidOfType(t, "refresh") /\ ProtectedCall(t))
                 => /\ resp'.body = "WrongScope"
                    /\ UNCHANGED <<users, auth_history, blocklist, tokens,
                                   logouts>>]_vars

\* a refresh has issued a pair, and a later refresh that carried an access
\* token was turned away
C12_Witness ==
    /\ byRefresh # {}
    /\ resp = Rejected("refresh", "WrongScope")

\* C13: the validator answers with the kind of the first check that fails, in
\* the order signature, expiry, scope, blocklist: a wrongly signed token is
\* Malformed whatever else holds of it, a signed token past its expiry is
\* Expired even when it is revoked or of the wrong type, an unexpired token
\* of the wrong type is WrongScope even when revoked, and Revoked is left for
\* a token that passes the three checks before.
C13_FirstFailingCheck ==
    [][\A t \in Presentable, required_type \in TokenTypes :
          JwtRequired(t, required_type)
              => resp'.body =
                     CASE ~t.signed -> "Malformed"
                       [] t.signed /\ now >= t.exp -> "Expired"
                       [] t.signed /\ now < t.exp /\ t.type # required_type
                              -> "WrongScope"
                       [] t.signed /\ now < t.exp /\ t.type = required_type
                          /\ is_revoked(t.jti) -> "Revoked"
                       [] OTHER -> "Ok"]_vars

\* a token that is both expired and revoked was rejected as Expired
C13_Witness ==
    /\ resp = Rejected("jwt_required", "Expired")
    /\ \A t \in tokens : now >= t.exp /\ is_revoked(t.jti)
    /\ tokens # {}

\* a step of add_role or remove_role
RoleCall(t, user_id, role_id) ==
    \/ ChangeUserRolesPost(t, user_id, role_id)
    \/ ChangeUserRolesDelete(t, user_id, role_id)

\* C14: a step that changes the roles of a user is never the step of an
\* add_role or remove_role request without a valid (well-formed, unexpired,
\* access-type, non-revoked) token, and every add_role and remove_role that
\* carries a valid access token and names an existing user and role answers
\* Success, whatever roles the acting user holds.
C14_RoleMutationNeedsTokenOnly ==
    [][/\ (Len(users') = Len(users) /\ users' # users)
            => \A t \in Presentable, user_id \in GateUserIds,
                  role_id \in RoleTable :
                      RoleCall(t, user_id, role_id) => ValidOfType(t, "access")
       /\ \A t \in tokens, user_id \in GateUserIds, role_id \in RoleTable :
             (ValidOfType(t, "access") /\ get_by_id(user_id) # 0
              /\ RoleCall(t, user_id, role_id))
                 => resp' = Response(resp'.op, 200, "Success")]_vars

\* the only role mutation carried out so far gave a role to the one user, who
\* was the acting user and held no role
C14_Witness ==
    /\ Len(users) = 1
    /\ Len(users[1].roles) = 1
    /\ resp = Response("add_role", 200, "Success")
    /\ role_calls = {[op |-> "add_role", held |-> FALSE, changed |-> TRUE,
                      status |-> 200]}

\* identifiers that are well-formed, and those among them that name a row
WellFormed(user_id, role_id) == is_uuid(user_id) /\ is_uuid(role_id)
Existing(user_id, role_id) == get_by_id(user_id) # 0 /\ find_by_id(role_id) # 0

InvalidIdentifier(op) == Response(op, 400, "Invalid UUID format")
NotFound(op) ==
    {Response(op, 400, "No user with specified id"),
     Response(op, 400, "No role with specified id")}

\* C17: an admitted add_role or remove_role whose user id or role id is
\* malformed fails with InvalidIdentifier, one whose ids are well-formed but
\* name no existing user or no existing role fails with NotFound, and in both
\* cases the roles of every user stay as they were.
C17_BadIdsFailCleanly ==
    [][\A t \in tokens, user_id \in UserIdInputs, role_id \in RoleIdInputs :
          (/\ ValidOfType(t, "access")
           /\ ~(WellFormed(user_id, role_id) /\ Existing(user_id, role_id))
           /\ RoleCall(t, user_id, role_id))
              => /\ users' = users
                 /\ IF WellFormed(user_id, role_id)
                    THEN resp' \in NotFound(resp'.op)
                    ELSE resp' = InvalidIdentifier(resp'.op)]_vars

\* the user holds a role, and a remove_role that named no existing role was
\* answered NotFound
C17_Witness ==
    /\ Len(users) = 1
    /\ users[1].roles # <<>>
    /\ resp = Response("remove_role", 400, "No role with specified id")

\* the logins of a user that returned a token pair
SuccessfulLogins(user_id) == {a \in byLogin : a.sub = user_id}

\* C15: every step leaves the records the login history already holds in
\* place and unchanged, at most appending to them, and a history request for
\* a user answers with exactly as many records as the user has had successful
\* logins, all of them records of that user, oldest first.
C15_HistoryAppendOnlyOrdered ==
    [][/\ Len(auth_history') >= Len(auth_history)
       /\ SubSeq(auth_history', 1, Len(auth_history)) = auth_history
       /\ \A t \in tokens, user_id \in 1..MaxUsers :
             (ValidOfType(t, "access") /\ LoginHistory(t, user_id))
                 => LET history == resp'.result
                    IN /\ resp'.status = 200
                       /\ Len(history) = Cardinality(SuccessfulLogins(user_id))
                       /\ \A k \in 1..Len(history) :
                             /\ history[k].user_id = user_id
                             /\ \E n \in 1..Len(auth_history) :
                                   auth_history[n] = history[k]
                       /\ \A k, l \in 1..Len(history) :
                             k < l => history[k].ts <= history[l].ts]_vars

\* a history request was answered with the two logins of a user, made at
\* different times
C15_Witness ==
    /\ resp.op = "history"
    /\ Len(resp.result) = 2
    /\ resp.result[1].ts < resp.result[2].ts

\* the credential update would give the user a login or an email that another
\* stored user holds
TakesIdentity(user_id, data) ==
    \E j \in 1..Len(users) :
        /\ j # user_id
        /\ \/ data.key = "login" /\ users[j].login = data.value
           \/ data.key = "email" /\ users[j].email = data.value

\* C16: after every signup and every credential update no two stored users
\* share a login or an email; a signup with a login or email of a stored
\* user, and an admitted credential update that would give a user the login
\* or email of another, end with the error response Login or email already
\* exist, not with an internal error, and leave the stored users as they
\* were.
C16_UniqueIdentities ==
    [][/\ Unique(users')
       /\ \A data \in SignUpPayloads :
             (/\ ~data.empty
              /\ \E j \in 1..Len(users) :
                     users[j].login = data.login \/ users[j].email = data.email
              /\ SignUp(data))
                 => /\ resp' = Response("signup", 400,
                                        "Login or email already exist")
                    /\ users' = users
       /\ \A t \in tokens, user_id \in 1..Len(users),
             data \in ChangeCredsPayloads :
             (/\ ValidOfType(t, "access")
              /\ TakesIdentity(user_id, data)
              /\ ChangeCreds(t, user_id, data))
                 => /\ resp' = Response("change_creds", 400,
                                        "Login or email already exist")
                    /\ users' = users]_vars

\* two users are stored, and a credential update that reached for the login
\* or email of the other was refused
C16_Witness ==
    /\ Len(users) = 2
    /\ Unique(users)
    /\ resp = Response("change_creds", 400, "Login or email already exist")

\* C18: a revoked access token never becomes valid again: at every time after
\* a logout with the token has ended, early or late in the token's lifetime,
\* validate(token, access) rejects it, as Revoked or as Expired.
C18_RevokedStaysRejected ==
    \A i \in 1..Len(logged_out) :
        validate(logged_out[i].token, "access") \in {"Revoked", "Expired"}

====
